---- MODULE Spec2Model ----
(***************************************************************************)
(* Model of the crate `iou` (src/src/lib.rs): Iou<S, F, T>, a value that   *)
(* is lazily initialized by applying the one-shot function f to the        *)
(* initialization data s at the first call of init() or unwrap().          *)
(*                                                                         *)
(* One instance is modelled together with its single-threaded caller.      *)
(* A panic unwinds to the caller, who may catch it and go on using the     *)
(* instance; the panic message is the observable error.  The body of the   *)
(* initializer is caller code: while it runs inside init() it may call     *)
(* the &self methods of the same instance (nested calls).                  *)
(***************************************************************************)
EXTENDS Integers, Sequences, FiniteSets

(* ------------------------------ bounds -------------------------------- *)
\* initialization data (S) ranges over 0..MaxSeed
MaxSeed == 2
\* values stored through a &mut T range over 0..MaxVal
MaxVal == 3
\* outstanding references of one kind the caller keeps at a time
MaxRefs == 2
\* nested calls one run of the initializer makes on its own instance
MaxNested == 2

Seeds == 0..MaxSeed
Values == 0..MaxVal
\* the initializers (F) the caller may supply
Fs == {"succ", "double", "fails"}

(* -------------------------- the initializer --------------------------- *)
\* whether f(s) panics instead of returning
Panics(f, s) == f = "fails"

\* the value f(s) returns when it returns
Apply(f, s) ==
  CASE f = "succ" -> s + 1
    [] f = "double" -> 2 * s
    [] OTHER -> 0

(* --------------------------- Option<(S, F)> --------------------------- *)
None == <<>>
Some(x) == <<x>>

\* Option::take as a mutant that leaves the pair in place
takeKeep(p) == [val |-> p, rest |-> p]

\* Option::take: the old contents, and None left behind
take(p) == [val |-> p, rest |-> None]

(* ------------------------- IouState<S, F, T> -------------------------- *)
IouPreInit(p) == [tag |-> "PreInit", p |-> p, t |-> 0]
IouInit(t) == [tag |-> "Init", p |-> None, t |-> t]

\* Iou::new as a mutant that runs the initializer at construction
newEager(s, f) == IouInit(Apply(f, s))

\* Iou::new
new(s, f) == IouPreInit(Some(<<s, f>>))

(* ------------------------ outcomes of a call --------------------------- *)
IouCorrupted == "Iou: corrupted cell"
InitCorrupted == "init: corrupted cell"
FPanicMsg == "initializer panicked"

Res(kind, b, v, msg, viaF) ==
  [kind |-> kind, b |-> b, v |-> v, msg |-> msg, viaF |-> viaF]
NoRes == Res("none", FALSE, 0, "", FALSE)
Unit == Res("unit", FALSE, 0, "", FALSE)
Bool(b) == Res("bool", b, 0, "", FALSE)
Ref(v) == Res("ref", FALSE, v, "", FALSE)
RefMut(v) == Res("refmut", FALSE, v, "", FALSE)
Owned(v) == Res("owned", FALSE, v, "", FALSE)
\* a panic raised by the crate's own code
Panic(msg) == Res("panic", FALSE, 0, msg, FALSE)
\* a panic that unwinds out of the initializer, passed on unchanged
FPanic(msg) == Res("panic", FALSE, 0, msg, TRUE)

VARIABLES
  seed,     \* the initialization data given to new
  fn,       \* the initializer given to new
  cell,     \* the contents of the UnsafeCell: an IouState
  alive,    \* FALSE once unwrap has consumed the instance
  running,  \* TRUE while init() is inside its call f(s)
  local,    \* the pair (s, f) init() took out of the cell, while running
  args,     \* the arguments the initializer was invoked on, in order
  srefs,    \* outstanding &T handed out by get
  mrefs,    \* outstanding &mut T handed out by get_mut
  op,       \* the last operation the caller called
  pre,      \* the cell contents when that operation was called
  res,      \* its outcome as the caller sees it
  nop,      \* the last nested call the running initializer made
  nres,     \* its outcome as the initializer sees it
  nested,   \* nested calls made by the current run of the initializer
  forced,   \* whether init, get, get_mut or unwrap was ever called
  stored    \* the value last stored as T: by init(), or through a &mut T

vars == <<seed, fn, cell, alive, running, local, args, srefs, mrefs,
          op, pre, res, nop, nres, nested, forced, stored>>

\* the number of times the initializer was invoked
calls == Len(args)

Init ==
  /\ seed \in Seeds
  /\ fn \in Fs
  /\ cell = new(seed, fn)
  /\ alive = TRUE
  /\ running = FALSE
  /\ local = None
  /\ args = <<>>
  /\ srefs = 0
  /\ mrefs = 0
  /\ op = "new"
  /\ pre = new(seed, fn)
  /\ res = NoRes
  /\ nop = "none"
  /\ nres = NoRes
  /\ nested = 0
  /\ forced = FALSE
  /\ stored = 0

\* the caller may call a method: the instance exists and no call is in progress
Idle == alive /\ ~running

\* Iou::is_init testing for the wrong variant (mutant)
is_initResPreInit(c) ==
  IF c = IouPreInit(None)
    THEN Panic(IouCorrupted)
    ELSE Bool(c.tag = "PreInit")

\* Iou::is_init without its test for a corrupted cell (mutant)
is_initResUnchecked(c) == Bool(c.tag = "Init")

\* Iou::is_init on contents c: its outcome
is_initRes(c) ==
  IF c = IouPreInit(None)
    THEN Panic(IouCorrupted)
    ELSE Bool(c.tag = "Init")

\* Iou::get handing out the T field without looking at the variant (mutant)
getResUnchecked(c) == Ref(c.t)

\* Iou::get on contents c: its outcome
getRes(c) ==
  IF c.tag = "Init" THEN Ref(c.t) ELSE Panic(InitCorrupted)

\* Iou::get_mut on contents c: its outcome
get_mutRes(c) ==
  IF c.tag = "Init" THEN RefMut(c.t) ELSE Panic(InitCorrupted)

\* Iou::is_init initializing a pending cell as a side effect (mutant)
is_initForcing ==
  /\ Idle
  /\ op' = "is_init"
  /\ pre' = cell
  /\ res' = is_initRes(cell)
  /\ IF cell.tag = "PreInit" /\ cell.p # None /\ ~Panics(fn, seed)
       THEN /\ cell' = IouInit(Apply(fn, seed))
            /\ args' = Append(args, seed)
            /\ stored' = Apply(fn, seed)
       ELSE UNCHANGED <<cell, args, stored>>
  /\ UNCHANGED <<seed, fn, alive, running, local, srefs, mrefs,
                 nop, nres, nested, forced>>

\* Iou::is_init
is_init ==
  /\ Idle
  /\ op' = "is_init"
  /\ pre' = cell
  /\ res' = is_initRes(cell)
  /\ UNCHANGED <<seed, fn, cell, alive, running, local, args, srefs, mrefs,
                 nop, nres, nested, forced, stored>>

\* Iou::init with the cell corrupted rather than left alone when it is
\* already initialized (mutant)
initEnterClobber(c) ==
  IF c.tag = "PreInit"
    THEN IF c.p = None
           THEN [cell |-> c, pair |-> None, res |-> Panic(InitCorrupted)]
           ELSE [cell |-> IouPreInit(take(c.p).rest), pair |-> take(c.p).val,
                 res |-> NoRes]
    ELSE [cell |-> IouPreInit(None), pair |-> None, res |-> Unit]

\* Iou::init up to its call of f: the contents it leaves in the cell, the
\* pair it took out (None when it does not call f) and, when it does not
\* call f, its outcome
initEnter(c) ==
  IF c.tag = "PreInit"
    THEN IF c.p = None
           THEN [cell |-> c, pair |-> None, res |-> Panic(InitCorrupted)]
           ELSE [cell |-> IouPreInit(take(c.p).rest), pair |-> take(c.p).val,
                 res |-> NoRes]
    ELSE [cell |-> c, pair |-> None, res |-> Unit]

\* Iou::init, from the call to its return or, when it invokes the
\* initializer, to the invocation f(s)
init ==
  /\ Idle
  /\ op' = "init"
  /\ pre' = cell
  /\ forced' = TRUE
  /\ LET e == initEnter(cell) IN
       /\ cell' = e.cell
       /\ IF e.pair # None
            THEN /\ running' = TRUE
                 /\ local' = e.pair
                 /\ args' = Append(args, e.pair[1][1])
                 /\ nested' = 0
                 /\ res' = NoRes
            ELSE /\ res' = e.res
                 /\ UNCHANGED <<running, local, args, nested>>
  /\ UNCHANGED <<seed, fn, alive, srefs, mrefs, nop, nres, stored>>

\* Iou::init dropping the value f returned instead of storing it (mutant)
init_returnDrop ==
  /\ alive /\ running
  /\ LET s == local[1][1]
         f == local[1][2] IN
       IF Panics(f, s)
         THEN res' = FPanic(FPanicMsg)
         ELSE res' = Unit
  /\ running' = FALSE
  /\ local' = None
  /\ UNCHANGED <<seed, fn, cell, stored, alive, args, srefs, mrefs, op, pre,
                 nop, nres, nested, forced>>

\* Iou::init from the end of f(s): the assignment *contents = Init(f(s)),
\* or the unwinding of init() when f panicked
init_return ==
  /\ alive /\ running
  /\ LET s == local[1][1]
         f == local[1][2] IN
       IF Panics(f, s)
         THEN /\ res' = FPanic(FPanicMsg)
              /\ UNCHANGED <<cell, stored>>
         ELSE /\ cell' = IouInit(Apply(f, s))
              /\ stored' = Apply(f, s)
              /\ res' = Unit
  /\ running' = FALSE
  /\ local' = None
  /\ UNCHANGED <<seed, fn, alive, args, srefs, mrefs, op, pre, nop, nres,
                 nested, forced>>

\* the methods the initializer can call on its own instance: unwrap takes
\* self by value, which the borrow &self held by init() rules out
NestedOps == {"is_init", "init", "get", "get_mut"}

\* A call of method o made by the running initializer on its own instance.
\* The call reads the cell through a second pointer while init() holds its
\* &mut; the cell it finds is what init() stored before calling f.  A panic
\* of the nested call either is caught inside the initializer or unwinds
\* out of f and out of init().  A nested init() that finds the pair in
\* place invokes the initializer again, taken here to run to its end.
nested_call(o, caught) ==
  /\ alive /\ running
  /\ nested < MaxNested
  /\ nested' = nested + 1
  /\ nop' = o
  /\ LET e == initEnter(cell)
         again == o = "init" /\ e.pair # None
         r == CASE o = "is_init" -> is_initRes(cell)
                [] o = "get" -> getRes(cell)
                [] o = "get_mut" -> get_mutRes(cell)
                [] again /\ Panics(e.pair[1][2], e.pair[1][1]) ->
                     FPanic(FPanicMsg)
                [] again -> Unit
                [] OTHER -> e.res IN
       /\ nres' = r
       /\ args' = IF again THEN Append(args, e.pair[1][1]) ELSE args
       /\ cell' = CASE again /\ r.kind = "panic" -> e.cell
                    [] again -> IouInit(Apply(e.pair[1][2], e.pair[1][1]))
                    [] o = "init" -> e.cell
                    [] OTHER -> cell
       /\ IF r.kind = "panic" /\ ~caught
            THEN /\ running' = FALSE
                 /\ local' = None
                 /\ res' = FPanic(r.msg)
            ELSE UNCHANGED <<running, local, res>>
  /\ UNCHANGED <<seed, fn, alive, srefs, mrefs, op, pre, forced, stored>>

\* Iou::get; the caller keeps the reference or lets it go at once
get ==
  /\ Idle
  /\ op' = "get"
  /\ pre' = cell
  /\ forced' = TRUE
  /\ res' = getRes(cell)
  /\ \E keep \in BOOLEAN :
       /\ keep => (getRes(cell).kind = "ref" /\ srefs < MaxRefs)
       /\ srefs' = IF keep THEN srefs + 1 ELSE srefs
  /\ UNCHANGED <<seed, fn, cell, alive, running, local, args, mrefs,
                 nop, nres, nested, stored>>

\* Iou::get_mut; the caller keeps the reference or lets it go at once
get_mut ==
  /\ Idle
  /\ op' = "get_mut"
  /\ pre' = cell
  /\ forced' = TRUE
  /\ res' = get_mutRes(cell)
  /\ \E keep \in BOOLEAN :
       /\ keep => (get_mutRes(cell).kind = "refmut" /\ mrefs < MaxRefs)
       /\ mrefs' = IF keep THEN mrefs + 1 ELSE mrefs
  /\ UNCHANGED <<seed, fn, cell, alive, running, local, args, srefs,
                 nop, nres, nested, stored>>

\* a store through a &mut T that does not reach the cell (mutant)
writeLost(v) ==
  /\ Idle
  /\ mrefs > 0
  /\ op' = "write"
  /\ pre' = cell
  /\ res' = Unit
  /\ stored' = v
  /\ UNCHANGED <<seed, fn, cell, alive, running, local, args, srefs, mrefs,
                 nop, nres, nested, forced>>

\* the caller stores v through a &mut T that get_mut returned: the
\* reference points at the T inside the cell.  get and get_mut take &self,
\* so other references may be outstanding; the store lands in the cell
\* all the same, and a later get reads the cell.
write(v) ==
  /\ Idle
  /\ mrefs > 0
  /\ op' = "write"
  /\ pre' = cell
  /\ res' = Unit
  /\ cell' = IouInit(v)
  /\ stored' = v
  /\ UNCHANGED <<seed, fn, alive, running, local, args, srefs, mrefs,
                 nop, nres, nested, forced>>

\* the caller lets go of a &T
drop_ref ==
  /\ Idle
  /\ srefs > 0
  /\ srefs' = srefs - 1
  /\ UNCHANGED <<seed, fn, cell, alive, running, local, args, mrefs,
                 op, pre, res, nop, nres, nested, forced, stored>>

\* the caller lets go of a &mut T
drop_mut ==
  /\ Idle
  /\ mrefs > 0
  /\ mrefs' = mrefs - 1
  /\ UNCHANGED <<seed, fn, cell, alive, running, local, args, srefs,
                 op, pre, res, nop, nres, nested, forced, stored>>

\* Iou::unwrap on contents c: its outcome
unwrapRes(c) ==
  CASE c.tag = "PreInit" /\ c.p # None ->
         IF Panics(c.p[1][2], c.p[1][1])
           THEN FPanic(FPanicMsg)
           ELSE Owned(Apply(c.p[1][2], c.p[1][1]))
    [] c.tag = "Init" -> Owned(c.t)
    [] OTHER -> Panic(IouCorrupted)

\* Iou::unwrap: takes self by value, so no reference is outstanding; the
\* instance is gone afterwards, whatever the outcome
unwrap ==
  /\ Idle
  /\ srefs = 0 /\ mrefs = 0
  /\ op' = "unwrap"
  /\ pre' = cell
  /\ forced' = TRUE
  /\ res' = unwrapRes(cell)
  /\ args' = IF cell.tag = "PreInit" /\ cell.p # None
               THEN Append(args, cell.p[1][1])
               ELSE args
  /\ alive' = FALSE
  /\ UNCHANGED <<seed, fn, cell, running, local, srefs, mrefs,
                 nop, nres, nested, stored>>

Next ==
  \/ is_init
  \/ init
  \/ init_return
  \/ \E o \in NestedOps, caught \in BOOLEAN : nested_call(o, caught)
  \/ get
  \/ get_mut
  \/ \E v \in Values : write(v)
  \/ drop_ref
  \/ drop_mut
  \/ unwrap

Spec == Init /\ [][Next]_vars

\* the types of the state
TypeOK ==
  /\ seed \in Seeds /\ fn \in Fs
  /\ cell.tag \in {"PreInit", "Init"}
  /\ alive \in BOOLEAN /\ running \in BOOLEAN
  /\ srefs \in 0..MaxRefs /\ mrefs \in 0..MaxRefs
  /\ nested \in 0..MaxNested
  /\ running => cell = IouPreInit(None) /\ local = Some(<<seed, fn>>)
  /\ (srefs > 0 \/ mrefs > 0) => cell.tag = "Init"

(* ------------------------------ claims -------------------------------- *)
\* the operations that are documented to initialize the value
Forcing == {"init", "get", "get_mut", "unwrap"}

\* the outcome is a panic of the crate reporting a corrupted cell
CorruptedState(r) ==
  r.kind = "panic" /\ ~r.viaF /\ r.msg \in {IouCorrupted, InitCorrupted}

\* the outcome is the failure of the initializer itself, passed on
InitializerFailure(r) == r.kind = "panic" /\ r.viaF

\* C1: get called on an instance that was never forced (pair intact, the
\* initializer one that returns) initializes it and returns f(s): no
\* panic, the initializer has run exactly once, is_init is then true.
C1_GetForcesPending ==
  (op = "get" /\ pre = new(seed, fn) /\ ~Panics(fn, seed)) =>
    /\ res = Ref(Apply(fn, seed))
    /\ args = <<seed>>
    /\ is_initRes(cell) = Bool(TRUE)

\* C2: get_mut called on an instance that was never forced initializes it
\* and returns exclusive access to f(s): no panic, and the instance is
\* initialized afterwards.
C2_GetMutForcesPending ==
  (op = "get_mut" /\ pre = new(seed, fn) /\ ~Panics(fn, seed)) =>
    /\ res = RefMut(Apply(fn, seed))
    /\ cell.tag = "Init"

\* C3: over any sequence of init, get, get_mut, is_init and unwrap calls on
\* one instance the initializer is invoked at most once, whether it returns
\* or panics.
C3_InitializerAtMostOnce == calls <= 1

\* C3's case: the initializer has been invoked and a forcing operation was
\* called again on the instance afterwards
C3_Witness ==
  /\ calls = 1
  /\ ~running
  /\ op \in Forcing
  /\ pre # new(seed, fn)

\* C4: new(s, f) does not invoke the initializer and cannot fail: until the
\* first forcing operation the pair is held as given, the initializer has
\* been invoked zero times, and the caller has seen no panic.
C4_NewDefersInitializer ==
  ~forced =>
    /\ calls = 0
    /\ cell = IouPreInit(Some(<<seed, fn>>))
    /\ res.kind # "panic"

\* C4's case: the caller queried a constructed, never forced instance
C4_Witness ==
  /\ ~forced
  /\ op = "is_init"
  /\ res = Bool(FALSE)

\* C5: once the initializer has failed inside init(), every operation
\* called on the instance (init, is_init, get, get_mut, unwrap) panics with
\* a corrupted-cell message: none returns a value or false, none invokes
\* the initializer again, and the instance stays corrupted.
C5_CorruptionSticky ==
  /\ (op \in Forcing \cup {"is_init"} /\ pre = IouPreInit(None)) =>
       /\ CorruptedState(res)
       /\ args = <<seed>>
       /\ cell = IouPreInit(None)
  /\ (cell = IouPreInit(None) /\ ~running) =>
       /\ calls = 1
       /\ InitializerFailure(res) \/ pre = IouPreInit(None)

\* C5's case: the initializer panicked in the first init(), and a later
\* is_init on that instance panicked
C5_Witness ==
  /\ Panics(fn, seed)
  /\ args = <<seed>>
  /\ op = "is_init"
  /\ pre = IouPreInit(None)
  /\ res = Panic(IouCorrupted)

\* C6: when the initializer fails on the first-call path of init, get,
\* get_mut or unwrap, that call's outcome is the initializer's own failure,
\* not a corrupted-cell panic; every later call on the instance sees a
\* corrupted-cell panic instead of the initializer's failure.
C6_FirstCallSeesInitializerFailure ==
  /\ (op \in Forcing /\ pre = new(seed, fn) /\ Panics(fn, seed) /\ ~running) =>
       InitializerFailure(res)
  /\ (op \in Forcing \cup {"is_init"} /\ pre # new(seed, fn)
        /\ Panics(fn, seed)) =>
       CorruptedState(res)

\* C7: on an instance that is not corrupted is_init returns true exactly
\* when the cell holds Init(t) and false exactly when it holds the pair
\* given to new; it is false right after new and true after any init()
\* that returned.
C7_IsInitTellsState ==
  /\ (op = "is_init" /\ pre # IouPreInit(None)) =>
       /\ res.kind = "bool"
       /\ res.b <=> pre.tag = "Init"
       /\ ~res.b <=> pre = new(seed, fn)
  /\ op = "new" => is_initRes(cell) = Bool(FALSE)
  /\ (op = "init" /\ ~running /\ res = Unit) => is_initRes(cell) = Bool(TRUE)

\* C7's case: is_init was called on an initialized instance
C7_Witness ==
  /\ op = "is_init"
  /\ pre.tag = "Init"
  /\ res = Bool(TRUE)

\* C8: init() on a never forced instance whose initializer returns takes
\* the pair out of the cell, invokes the initializer on exactly the data
\* given to new, and ends with the cell holding Init(f(s)).
C8_InitOnPending ==
  (op = "init" /\ pre = new(seed, fn) /\ ~Panics(fn, seed)) =>
    /\ args = <<seed>>
    /\ running => (cell = IouPreInit(None) /\ local = Some(<<seed, fn>>))
    /\ (~running /\ nested = 0) => res = Unit
    /\ (~running /\ res = Unit) => cell = IouInit(Apply(fn, seed))

\* C8's case: init() on a never forced instance has returned
C8_Witness ==
  /\ op = "init"
  /\ pre = new(seed, fn)
  /\ ~running
  /\ res = Unit
  /\ cell = IouInit(Apply(fn, seed))

\* C9: init() on an initialized instance returns without changing the
\* stored value or invoking the initializer, so any number of init() calls
\* leaves what one call leaves.
C9_InitIdempotent ==
  (op = "init" /\ pre.tag = "Init") =>
    /\ res = Unit
    /\ cell = pre
    /\ cell.t = stored
    /\ args = <<seed>>

\* C9's case: init() was called on an initialized instance whose value is
\* the one the initializer produced
C9_Witness ==
  /\ op = "init"
  /\ pre = IouInit(Apply(fn, seed))
  /\ res = Unit

\* C10: a value stored through the reference get_mut returned is what every
\* later get returns: the cell holds the value last stored, not f(s), and
\* no later init, get or get_mut overwrites it or invokes the initializer.
C10_WriteVisibleToGet ==
  /\ cell.tag = "Init" => (cell.t = stored /\ calls = 1)
  /\ (op = "get" /\ pre.tag = "Init") => res = Ref(stored)
  /\ (op \in {"init", "get", "get_mut", "is_init"} /\ pre.tag = "Init") =>
       cell = pre

\* C10's case: a get returned a value that was stored through a &mut T and
\* differs from the one the initializer produced
C10_Witness ==
  /\ op = "get"
  /\ res = Ref(stored)
  /\ stored # Apply(fn, seed)
  /\ calls = 1

\* the outcome carries a value of type T
ReturnsValue(r) == r.kind \in {"ref", "refmut", "owned"}

\* C11: unwrap on a never forced instance returns f(s), the value get
\* returns on a never forced instance built from the same s and f; unwrap
\* on an initialized instance returns the value now stored, stores through
\* a &mut T included, without invoking the initializer.
C11_UnwrapEquivalentToGet ==
  /\ (op = "unwrap" /\ pre = new(seed, fn) /\ ~Panics(fn, seed)) =>
       /\ res = Owned(Apply(fn, seed))
       /\ getRes(new(seed, fn)) = Ref(res.v)
  /\ (op = "unwrap" /\ pre.tag = "Init") =>
       /\ res = Owned(stored)
       /\ args = <<seed>>

\* C12: while a &mut T from get_mut is outstanding no other reference to
\* the value exists: a further get or get_mut on the instance fails, so a
\* &mut T never coexists with a &T or with a second &mut T (several &T
\* may coexist).
C12_BorrowExclusive ==
  mrefs > 0 => (mrefs = 1 /\ srefs = 0)

\* C13: once the cell holds Init(t), no init, is_init, get or get_mut (nor
\* a store through a reference) brings it back to PreInit, with or without
\* the pair; it holds Init until unwrap consumes the instance.
C13_InitIsTerminal ==
  [][cell.tag = "Init" => cell'.tag = "Init"]_vars

\* C13's case: an operation was called on an initialized instance
C13_Witness ==
  /\ alive
  /\ op \in {"init", "is_init", "get", "get_mut"}
  /\ pre.tag = "Init"
  /\ cell.tag = "Init"

\* C14: a call of init, is_init, get or get_mut made by the initializer on
\* its own instance while it runs inside init() fails with a corrupted-cell
\* panic (it finds the pair removed and no value stored): it returns no
\* value and no bool, and it does not start the initializer again.
C14_NestedCallFails ==
  nop # "none" =>
    /\ CorruptedState(nres)
    /\ args = <<seed>>
    /\ running => cell = IouPreInit(None)

\* C14's case: the running initializer called a method of its instance,
\* caught the panic and is still running
C14_Witness ==
  /\ running
  /\ nop = "init"
  /\ nres = Panic(InitCorrupted)
  /\ calls = 1

\* C15: between public operations the cell holds the pair given to new or
\* a value, never both; it holds neither (PreInit(None)) only while the
\* initializer is running or after the initializer has failed, and never
\* after an operation that returned normally.
C15_PairOrValue ==
  /\ cell.p # None => cell = new(seed, fn)
  /\ cell.tag = "PreInit" \/ cell.p = None
  /\ (cell = IouPreInit(None) /\ ~running) =>
       /\ calls = 1
       /\ Panics(fn, seed) \/ nres.kind = "panic"
       /\ res.kind = "panic"
  /\ (~running /\ res.kind # "panic") => cell # IouPreInit(None)

\* C15's case: the initializer has failed and the instance, between two
\* operations, holds neither the pair nor a value
C15_Witness ==
  /\ alive
  /\ ~running
  /\ cell = IouPreInit(None)
  /\ InitializerFailure(res)

\* C16: every value get, get_mut or unwrap returns is f(s), or the value
\* last stored through a &mut T; no operation, nested ones included,
\* returns a value from a cell that holds PreInit(None).
C16_NoGarbageValue ==
  /\ (op \in {"get", "get_mut", "unwrap"} /\ ReturnsValue(res)) =>
       /\ pre # IouPreInit(None)
       /\ res.v = IF pre.tag = "Init" THEN stored ELSE Apply(fn, seed)
       /\ args = <<seed>>
  /\ op \in {"init", "is_init", "new"} => ~ReturnsValue(res)
  /\ ~ReturnsValue(nres)

\* C16's case: unwrap returned a value that had been stored through a
\* &mut T
C16_Witness ==
  /\ op = "unwrap"
  /\ res = Owned(stored)
  /\ stored # Apply(fn, seed)

\* C17: is_init changes nothing: on a pending instance the pair stays in
\* place and the initializer is not invoked, on an initialized instance
\* the stored value is unchanged, and a repeated is_init or any later
\* operation finds the cell as it was.
C17_IsInitPure ==
  op = "is_init" =>
    /\ cell = pre
    /\ pre = new(seed, fn) => calls = 0
    /\ pre.tag = "Init" => (cell.t = stored /\ calls = 1)
    /\ res = is_initRes(cell)

\* C17's case: is_init was called on a pending instance, which is still
\* pending with its pair
C17_Witness ==
  /\ op = "is_init"
  /\ cell = new(seed, fn)
  /\ calls = 0
  /\ res = Bool(FALSE)

====
